---- MODULE Spec2Model ----
(***************************************************************************)
(* A model of the backup backend (backend/fs_api.py, backend/app.py):      *)
(* the sandboxed path resolution, the byte-range file response, the drive  *)
(* eject handler, the backup job engine with its run routine, the          *)
(* auto-backup watchdog and the settings file it shares with the           *)
(* /settings handlers.                                                      *)
(*                                                                         *)
(* Text (paths, range headers, subprocess output, the settings file) is    *)
(* modelled as sequences of one-character strings, so that prefix tests,   *)
(* splitting and parsing are computed as the code computes them.           *)
(***************************************************************************)
EXTENDS Integers, Sequences, FiniteSets, TLC

VARIABLES
    sj,         \* one safe_join call: its arguments and its outcome
    rg,         \* one _file_stream_response call: the request and the response
    pv,         \* the RAW previews: the source file, the cache directory, the calls
    mounted,    \* the drive ids under MEDIA_ROOT that are mount points
    mtime,      \* the modification time of each drive's root directory
    ej,         \* the eject_drive handlers: snapshot, position, commands issued, response
    JOB,        \* the module-level JOB dict
    runs,       \* the run_backup executions (background tasks and threads)
    reply,      \* the last response of POST /backup
    nStarts,    \* the number of POST /backup requests handled
    files,      \* the settings directory: the inode behind each name, the inodes' contents
    wd,         \* the watchdog thread (_auto_backup_loop / auto_backup_check)
    posts,      \* the POST /settings handlers (set_settings)
    lastRead,   \* what the last GET /settings read from the settings file
    now,        \* the wall clock, in watchdog intervals
    prevTick,   \* what the tick before the last one started
    lastTick    \* what the last tick started

vars == <<sj, rg, pv, mounted, mtime, ej, JOB, runs, reply, nStarts,
          files, wd, posts, lastRead, now, prevTick, lastTick>>

driveVars == <<mounted, mtime>>
jobVars == <<JOB, runs, reply, nStarts>>
settingsVars == <<files, wd, posts, lastRead>>
tickVars == <<now, prevTick, lastTick>>

\* Python's None and a present value: the empty sequence and a sequence of one
\* element, so that an optional value is always compared with a sequence.
None == <<>>
Some(x) == <<x>>

(***************************************************************************)
(* Text helpers.                                                           *)
(***************************************************************************)

\* Python's s.startswith(p) on character sequences.
StartsWith(s, p) ==
    /\ Len(p) <= Len(s)
    /\ SubSeq(s, 1, Len(p)) = p

\* The index of the first element of s that is in set cs, 0 when there is none
\* (str.find returns -1 there; indices here start at 1).
RECURSIVE FindFirst(_, _, _)
FindFirst(s, cs, i) ==
    IF i > Len(s) THEN 0
    ELSE IF s[i] \in cs THEN i
    ELSE FindFirst(s, cs, i + 1)

\* s without its leading elements that are in cs (str.lstrip).
RECURSIVE LStrip(_, _)
LStrip(s, cs) ==
    IF s # <<>> /\ Head(s) \in cs THEN LStrip(Tail(s), cs) ELSE s

\* s without its trailing elements that are in cs (str.rstrip).
RECURSIVE RStrip(_, _)
RStrip(s, cs) ==
    IF s # <<>> /\ s[Len(s)] \in cs THEN RStrip(SubSeq(s, 1, Len(s) - 1), cs) ELSE s

\* s.split(sep): the pieces between the separators, empty pieces included.
RECURSIVE Split(_, _)
Split(s, sep) ==
    LET i == FindFirst(s, {sep}, 1)
    IN  IF i = 0 THEN <<s>>
        ELSE <<SubSeq(s, 1, i - 1)>> \o Split(SubSeq(s, i + 1, Len(s)), sep)

(***************************************************************************)
(* PathSandbox: safe_join.  A path is the sequence of its components below *)
(* the filesystem root; a component is a character sequence.  The modelled *)
(* filesystem holds no symbolic links, so resolve() only removes "..".      *)
(***************************************************************************)

Whitespace == {" "}
Dot == <<".">>
DotDot == <<".", ".">>

\* MEDIA_ROOT: /media/admin.
MEDIA_ROOT == << <<"m", "e", "d", "i", "a">>, <<"a", "d", "m", "i", "n">> >>

\* pathlib's parsing of a relative path string: the components between the
\* slashes, without the empty ones and without ".".
RECURSIVE DropTrivial(_)
DropTrivial(parts) ==
    IF parts = <<>> THEN <<>>
    ELSE IF Head(parts) = <<>> \/ Head(parts) = Dot THEN DropTrivial(Tail(parts))
    ELSE <<Head(parts)>> \o DropTrivial(Tail(parts))

PathParts(rel) == DropTrivial(Split(rel, "/"))

\* Path.resolve() without symbolic links: ".." removes the component before
\* it, and is dropped at the filesystem root.
RECURSIVE ResolveFrom(_, _)
ResolveFrom(done, rest) ==
    IF rest = <<>> THEN done
    ELSE IF Head(rest) = DotDot
         THEN ResolveFrom(IF done = <<>> THEN <<>> ELSE SubSeq(done, 1, Len(done) - 1),
                          Tail(rest))
    ELSE ResolveFrom(Append(done, Head(rest)), Tail(rest))

Resolve(p) == ResolveFrom(<<>>, p)

\* str(path): "/" before every component, "/" alone for the filesystem root.
RECURSIVE JoinParts(_)
JoinParts(p) ==
    IF p = <<>> THEN <<>> ELSE <<"/">> \o Head(p) \o JoinParts(Tail(p))

PathStr(p) == IF p = <<>> THEN <<"/">> ELSE JoinParts(p)

\* safe_join(root, rel): [status |-> 200, path |-> Some(p)] when it returns p,
\* [status |-> 400, path |-> None] when it raises HTTPException(400).
SafeJoin(root, rel) ==
    LET r == LStrip(RStrip(LStrip(rel, Whitespace), Whitespace), {"/"})
        p == Resolve(root \o PathParts(r))
    IN  IF ~StartsWith(PathStr(p), PathStr(Resolve(root)))
        THEN [status |-> 400, path |-> None]
        ELSE [status |-> 200, path |-> Some(p)]

\* The longest relative path tried.
MaxRelLen == 6

PathChars == {"/", ".", "s", "d", "2", " "}

\* The drive ids: the directory names under MEDIA_ROOT.
SD == <<"s", "d">>
SSD == <<"s", "s", "d">>
SD2 == <<"s", "d", "2">>
DriveIds == {SD, SD2, SSD}

\* list_media_drives(): every directory under MEDIA_ROOT, with its path.
ListMediaDrives == DriveIds

DriveRoot(d) == MEDIA_ROOT \o <<d>>

\* The character sequences over cs of length at most n.
Strings(cs, n) == UNION {[1..k -> cs] : k \in 0..n}

NoResult == [status |-> 0, path |-> None]

IdlePath == sj = [root |-> <<>>, rel |-> <<>>, pc |-> "ret", out |-> NoResult]

PathInputs ==
    sj \in {[root |-> DriveRoot(SD), rel |-> x, pc |-> "call", out |-> NoResult] :
               x \in Strings(PathChars, MaxRelLen)}

\* A handler calls safe_join(root, rel).
SafeJoinCall ==
    /\ sj.pc = "call"
    /\ sj' = [sj EXCEPT !.pc = "ret", !.out = SafeJoin(sj.root, sj.rel)]
    /\ UNCHANGED <<pv, rg, driveVars, ej, jobVars, settingsVars, tickVars>>

(***************************************************************************)
(* MediaAccess: _file_stream_response.  The range header is a character    *)
(* sequence, parsed as the code parses it; the file is its size in bytes.  *)
(***************************************************************************)

DigitChars == <<"0", "1", "2", "3", "4", "5", "6", "7", "8", "9">>

IsDigit(c) == \E i \in 1..10 : DigitChars[i] = c

DigitVal(c) == (CHOOSE i \in 1..10 : DigitChars[i] = c) - 1

\* str(n) for n >= 0.
RECURSIVE ToDigits(_)
ToDigits(n) ==
    IF n < 10 THEN <<DigitChars[n + 1]>>
    ELSE Append(ToDigits(n \div 10), DigitChars[(n % 10) + 1])

\* The value of a sequence of digits, read left to right.
RECURSIVE DigitsValue(_, _)
DigitsValue(s, acc) ==
    IF s = <<>> THEN acc ELSE DigitsValue(Tail(s), 10 * acc + DigitVal(Head(s)))

\* int(s): surrounding blanks and one sign are accepted, then digits only;
\* anything else raises ValueError.
ParseInt(s) ==
    LET t == RStrip(LStrip(s, Whitespace), Whitespace)
        signed == t # <<>> /\ Head(t) \in {"-", "+"}
        d == IF signed THEN Tail(t) ELSE t
    IN  IF d = <<>> \/ \E i \in 1..Len(d) : ~IsDigit(d[i])
        THEN [ok |-> FALSE, val |-> 0]
        ELSE [ok |-> TRUE,
              val |-> IF signed /\ Head(t) = "-" THEN 0 - DigitsValue(d, 0)
                      ELSE DigitsValue(d, 0)]

\* s.partition(sep): the text before the first sep and the text after it
\* (the whole of s and nothing when sep does not occur).
Partition(s, sep) ==
    LET i == FindFirst(s, {sep}, 1)
    IN  IF i = 0 THEN [head |-> s, tail |-> <<>>]
        ELSE [head |-> SubSeq(s, 1, i - 1), tail |-> SubSeq(s, i + 1, Len(s))]

BytesWord == <<"b", "y", "t", "e", "s">>

\* The size of one chunk of iterfile: 1024 * 512.
ChunkSize == 524288

Min(a, b) == IF a < b THEN a ELSE b

\* A test that lets a range end one byte past the file's last byte.
RangeRejectedPastEnd(start, end, size) == start > end \/ end > size

\* The test that rejects a parsed range.
RangeRejected(start, end, size) == start > end \/ end >= size

\* The Content-Range header: f"bytes {start}-{end}/{size}".
ContentRange(start, end, size) ==
    BytesWord \o <<" ">> \o ToDigits(start) \o <<"-">> \o ToDigits(end)
        \o <<"/">> \o ToDigits(size)

\* _file_stream_response up to its return: the status and the headers, and
\* for a 206 the range iterfile will serve.
RangeResponse(size, header) ==
    LET whole == [status |-> 200, start |-> 0, end |-> size - 1,
                  contentRange |-> None, contentLength |-> size]
        bad == [status |-> 416, start |-> 0, end |-> 0 - 1,
                contentRange |-> None, contentLength |-> 0]
        text == IF header = None THEN <<>> ELSE header[1]
        eq == Partition(text, "=")
        dash == Partition(eq.tail, "-")
        ps == ParseInt(dash.head)
        pe == ParseInt(dash.tail)
        start == IF dash.head # <<>> THEN ps.val ELSE 0
        end == IF dash.tail # <<>> THEN pe.val ELSE size - 1
    IN  IF text = <<>> THEN whole
        ELSE IF eq.head # BytesWord \/ eq.tail = <<>> THEN bad
        ELSE IF (dash.head # <<>> /\ ~ps.ok) \/ (dash.tail # <<>> /\ ~pe.ok) THEN bad
        ELSE IF RangeRejected(start, end, size) THEN bad
        ELSE [status |-> 206, start |-> start, end |-> end,
              contentRange |-> Some(ContentRange(start, end, size)),
              contentLength |-> end - start + 1]

\* The largest file size and the largest range bound tried, besides the
\* sizes and bounds of the documented examples.
MaxFileSize == 3
MaxRangeNum == 4

FileSizes == 0..MaxFileSize \cup {1000}
RangeNums == 0..MaxRangeNum \cup {100, 199, 900, 999999}
OptRangeNums == {None} \cup {Some(n) : n \in RangeNums}

\* The header a client sends for a range: bytes=<start>-<end>, either omitted
\* (None).
FormatRange(a, b) ==
    BytesWord \o <<"=">> \o (IF a = None THEN <<>> ELSE ToDigits(a[1])) \o <<"-">>
        \o (IF b = None THEN <<>> ELSE ToDigits(b[1]))

\* Headers that are no range of bytes.
MalformedHeaders ==
    { <<"b", "i", "t", "s", "=", "0", "-", "1">>,
      <<"b", "y", "t", "e", "s">>,
      <<"b", "y", "t", "e", "s", "=">>,
      <<"b", "y", "t", "e", "s", "=", "x", "-", "1">>,
      <<"b", "y", "t", "e", "s", "=", "1", "-", "x">> }

RangeIdle(size, form, a, b, header) ==
    [size |-> size, form |-> form, wantStart |-> a, wantEnd |-> b, header |-> header,
     pc |-> "call", status |-> 0, contentRange |-> None, contentLength |-> 0,
     pos |-> 0, remaining |-> 0, sent |-> 0]

IdleRange == rg = [RangeIdle(0, "none", None, None, None) EXCEPT !.pc = "done"]

RangeInputs ==
    rg \in {RangeIdle(n, "range", a, b, Some(FormatRange(a, b))) :
               n \in FileSizes, a \in OptRangeNums, b \in OptRangeNums}
          \cup {RangeIdle(n, "malformed", None, None, Some(h)) :
                  n \in FileSizes, h \in MalformedHeaders}
          \cup {RangeIdle(n, "none", None, None, h) : n \in FileSizes, h \in {None, Some(<<>>)}}

\* get_file calls _file_stream_response: the response's status and headers.
FileStreamResponse ==
    /\ rg.pc = "call"
    /\ LET r == RangeResponse(rg.size, rg.header)
       IN  rg' = [rg EXCEPT !.status = r.status,
                            !.contentRange = r.contentRange,
                            !.contentLength = r.contentLength,
                            !.pos = r.start,
                            !.remaining = IF r.status = 206 THEN r.end - r.start + 1 ELSE 0,
                            !.sent = IF r.status = 200 THEN rg.size ELSE 0,
                            !.pc = IF r.status = 206 THEN "stream" ELSE "done"]
    /\ UNCHANGED <<pv, sj, driveVars, ej, jobVars, settingsVars, tickVars>>

\* One turn of iterfile's loop: read a chunk, stop at the end of the file
\* or of the range.
IterFile ==
    /\ rg.pc = "stream"
    /\ LET want == Min(ChunkSize, rg.remaining)
           inFile == IF rg.pos < rg.size THEN rg.size - rg.pos ELSE 0
           got == Min(want, inFile)
       IN  IF rg.remaining > 0 /\ got > 0
           THEN rg' = [rg EXCEPT !.pos = rg.pos + got,
                                 !.remaining = rg.remaining - got,
                                 !.sent = rg.sent + got]
           ELSE rg' = [rg EXCEPT !.pc = "done"]
    /\ UNCHANGED <<pv, sj, driveVars, ej, jobVars, settingsVars, tickVars>>

(***************************************************************************)
(* PreviewCache: _raw_preview_path, _build_raw_preview.  pv.stat is what    *)
(* stat() says of each RAW file, pv.cache the names in PREVIEW_DIR,         *)
(* pv.oracle the keys hashed so far, pv.calls the calls made.               *)
(***************************************************************************)

\* The RAW files requested: two of the same name in different directories.
RawFiles ==
    { <<"a", "/", "x", ".", "r">>, <<"b", "/", "x", ".", "r">> }

\* The first of them is rewritten and touched; the other stays as it is.
RawTouched == <<"a", "/", "x", ".", "r">>

\* The modification times (st_mtime_ns) and sizes a RAW file is seen with.
RawStats == [mtime : {1, 2}, size : {1, 2}]

\* The _build_raw_preview calls made.
MaxPreviews == 3

\* The index of the last element of s that is c, 0 when there is none.
RECURSIVE FindLast(_, _, _)
FindLast(s, c, i) ==
    IF i = 0 THEN 0
    ELSE IF s[i] = c THEN i
    ELSE FindLast(s, c, i - 1)

\* Path.stem: the last component without its last suffix.
Stem(target) ==
    LET slash == FindLast(target, "/", Len(target))
        name == SubSeq(target, slash + 1, Len(target))
        dot == FindLast(name, ".", Len(name))
    IN  IF dot <= 1 THEN name ELSE SubSeq(name, 1, dot - 1)

\* The cache key of a key that leaves the modification time out.
RawPreviewKeyNoTime(target, st) ==
    target \o <<":">> \o ToDigits(st.size)

\* The cache key, line 156: f"{target}:{st.st_mtime_ns}:{st.st_size}".
RawPreviewKey(target, st) ==
    target \o <<":">> \o ToDigits(st.mtime) \o <<":">> \o ToDigits(st.size)

\* hashlib.sha256(key).hexdigest()[:16], taken to be free of collisions on
\* the keys hashed: a key hashed before has the digest it had, a new key a
\* digest no other key has.  oracle is the sequence of keys hashed so far.
DigestIndex(oracle, key) ==
    IF \E i \in DOMAIN oracle : oracle[i] = key
    THEN CHOOSE i \in DOMAIN oracle : oracle[i] = key
    ELSE Len(oracle) + 1

Digest(oracle, key) == <<"h">> \o ToDigits(DigestIndex(oracle, key))

Hashed(oracle, key) ==
    IF \E i \in DOMAIN oracle : oracle[i] = key THEN oracle ELSE Append(oracle, key)

\* _raw_preview_path(target), lines 154-159: the name of the artifact in
\* PREVIEW_DIR.
RawPreviewPath(oracle, target, st) ==
    Stem(target) \o <<".">> \o Digest(oracle, RawPreviewKey(target, st))
        \o <<".", "j", "p", "g">>

IdlePreview ==
    pv = [stat |-> [f \in RawFiles |-> [mtime |-> 1, size |-> 1]],
          cache |-> {}, oracle |-> <<>>, calls |-> <<>>]

\* The RAW file is rewritten or touched: stat() says something else of it.
TouchRaw ==
    /\ \E st \in RawStats \ {pv.stat[RawTouched]} :
         pv' = [pv EXCEPT !.stat[RawTouched] = st]
    /\ UNCHANGED <<sj, rg, driveVars, ej, jobVars, settingsVars, tickVars>>

\* _build_raw_preview(target), lines 163-166: the artifact's path, returned
\* at once when the artifact exists.
BuildRawPreview(target) ==
    /\ Len(pv.calls) < MaxPreviews
    /\ LET st == pv.stat[target]
           dst == RawPreviewPath(pv.oracle, target, st)
           hit == dst \in pv.cache
       IN  pv' = [pv EXCEPT
                    !.oracle = Hashed(@, RawPreviewKey(target, st)),
                    !.calls = Append(@, [target |-> target, st |-> st, dst |-> dst,
                                         pc |-> IF hit THEN "done" ELSE "generate",
                                         generated |-> FALSE,
                                         status |-> IF hit THEN 200 ELSE 0])]
    /\ UNCHANGED <<sj, rg, driveVars, ej, jobVars, settingsVars, tickVars>>

\* _build_raw_preview, lines 167-172: the RAW file is decoded and the JPEG
\* saved under the path; a decoding error leaves the cache as it is and is
\* answered 500 by get_file.
GenerateRawPreview(i) ==
    /\ pv.calls[i].pc = "generate"
    /\ \/ pv' = [pv EXCEPT !.cache = @ \cup {pv.calls[i].dst},
                           !.calls[i].pc = "done",
                           !.calls[i].generated = TRUE,
                           !.calls[i].status = 200]
       \/ pv' = [pv EXCEPT !.calls[i].pc = "done", !.calls[i].status = 500]
    /\ UNCHANGED <<sj, rg, driveVars, ej, jobVars, settingsVars, tickVars>>

(***************************************************************************)
(* DriveRegistry: mount detection, the removable media, eject_drive.       *)
(***************************************************************************)

\* The modification times a drive's root directory is seen with: a card,
\* and the same card with other contents.
Mtimes == {1, 2}

\* is_mounted(p) for the directory of drive d.
IsMounted(d) == d \in mounted

\* A registry that takes every directory under MEDIA_ROOT for a drive.
AvailableDrivesListed == ListMediaDrives

\* available_drives(): the directories under MEDIA_ROOT that are mounted.
AvailableDrives == {d \in ListMediaDrives : IsMounted(d)}

\* A card or disk is plugged in and mounted; its root directory has
\* modification time t.
Mount(d, t) ==
    /\ d \notin mounted
    /\ mounted' = mounted \cup {d}
    /\ mtime' = [mtime EXCEPT ![d] = t]

\* A mounted card or disk is pulled out.
Unplug(d) ==
    /\ d \in mounted
    /\ mounted' = mounted \ {d}
    /\ mtime' = [mtime EXCEPT ![d] = 0]

\* The card and the disk, each mounted or not, with modification times
\* among ts.
AnyDrives(ts) ==
    /\ mounted \in SUBSET {SD, SSD}
    /\ mtime \in [DriveIds -> ts \cup {0, 1}]
    /\ \A d \in DriveIds : mtime[d] = 0 <=> d \notin mounted
    /\ \A d \in DriveIds \ {SD} : mtime[d] <= 1

IdleDrives ==
    /\ mounted = {}
    /\ mtime = [d \in DriveIds |-> 0]

\* The POST /drive/eject requests handled.
MaxEjects == 2

\* The ids a client may ask to eject: the directories and a name that is none.
EjectIds == DriveIds \cup {<<"x">>}

IdleEject == ej = <<>>

\* eject_drive(d), lines 442-444: the snapshot of the mounted drives and
\* the 404 for an id that is not in it.
EjectDrive(d) ==
    /\ Len(ej) < MaxEjects
    /\ LET roots == AvailableDrives
       IN  ej' = Append(ej, [drive |-> d, roots |-> roots, issued |-> <<>>,
                             pc |-> IF d \in roots THEN "sync" ELSE "done",
                             status |-> IF d \in roots THEN 0 ELSE 404])
    /\ UNCHANGED <<pv, sj, rg, driveVars, jobVars, settingsVars, tickVars>>

\* eject_drive, line 445: subprocess.run(["sync"]).
EjectSync(i) ==
    /\ ej[i].pc = "sync"
    /\ ej' = [ej EXCEPT ![i].issued = Append(@, <<"sync">>), ![i].pc = "umount"]
    /\ UNCHANGED <<pv, sj, rg, driveVars, jobVars, settingsVars, tickVars>>

\* eject_drive, lines 446-447: subprocess.run(["umount", root], check=True).
\* umount fails when the drive is gone or busy; the CalledProcessError is
\* not caught, which a client sees as a 500.
EjectUmount(i) ==
    /\ ej[i].pc = "umount"
    /\ \E busy \in BOOLEAN :
         LET d == ej[i].drive
             ok == d \in mounted /\ ~busy
         IN  /\ ej' = [ej EXCEPT ![i].issued = Append(@, <<"umount", d>>),
                                 ![i].pc = "done",
                                 ![i].status = IF ok THEN 200 ELSE 500]
             /\ mounted' = IF ok THEN mounted \ {d} ELSE mounted
             /\ mtime' = IF ok THEN [mtime EXCEPT ![d] = 0] ELSE mtime
    /\ UNCHANGED <<pv, sj, rg, jobVars, settingsVars, tickVars>>

(***************************************************************************)
(* BackupJobEngine: the JOB record, start_backup, run_backup.              *)
(***************************************************************************)

NL == "\n"
CR == "\r"

\* JOB as the module creates it.
JobIdle ==
    [running |-> FALSE, log |-> <<>>, progress |-> 0, result |-> None,
     finished_at |-> None]

\* What run_backup's first statement writes into JOB.
JobReset ==
    [running |-> TRUE, log |-> <<>>, progress |-> 0, result |-> None,
     finished_at |-> None]

Results == {"success", "warning", "failed"}

\* The copy subprocess's exit codes tried: success, the two partial
\* failures, their neighbours, a syntax error, and death by a signal.
ExitCodes == {0, 1, 22, 23, 24, 25, 0 - 9}

\* A classification without the partial-failure codes.
ClassifyStrict(rc) == IF rc = 0 THEN "success" ELSE "failed"

\* The classification of the subprocess's exit code.
Classify(rc) ==
    IF rc = 0 THEN "success"
    ELSE IF rc \in {23, 24} THEN "warning"
    ELSE "failed"

\* The index after the run of digits that starts at i.
RECURSIVE DigitsEnd(_, _)
DigitsEnd(line, i) ==
    IF i <= Len(line) /\ IsDigit(line[i]) THEN DigitsEnd(line, i + 1) ELSE i

\* progress_re.search(line) for (\d+)%: the first run of digits that a "%"
\* follows; found is FALSE when the line holds none.
RECURSIVE ProgressSearch(_, _)
ProgressSearch(line, i) ==
    IF i > Len(line) THEN [found |-> FALSE, val |-> 0]
    ELSE IF ~IsDigit(line[i]) THEN ProgressSearch(line, i + 1)
    ELSE LET e == DigitsEnd(line, i)
         IN  IF e <= Len(line) /\ line[e] = "%"
             THEN [found |-> TRUE, val |-> DigitsValue(SubSeq(line, i, e - 1), 0)]
             ELSE ProgressSearch(line, e)

\* A cut at "\n" alone.
LineCutNewline(buf) == FindFirst(buf, {NL}, 1)

\* Where the read loop cuts the buffer: the first "\n" or "\r", 0 when the
\* buffer holds neither.
LineCut(buf) ==
    LET nl == FindFirst(buf, {NL}, 1)
        cr == FindFirst(buf, {CR}, 1)
    IN  IF nl = 0 THEN cr
        ELSE IF cr = 0 THEN nl
        ELSE Min(nl, cr)

\* What one line does to progress.
LineProgress(line, progress) ==
    LET m == ProgressSearch(line, 1)
    IN  IF m.found THEN m.val ELSE progress

\* The inner loop of the read loop: every complete line leaves the buffer,
\* goes to the log unless it is empty, and sets progress when it holds a
\* percentage.
RECURSIVE DrainBuffer(_, _, _)
DrainBuffer(buf, log, progress) ==
    LET cut == LineCut(buf)
        line == SubSeq(buf, 1, cut - 1)
    IN  IF cut = 0 THEN [buf |-> buf, log |-> log, progress |-> progress]
        ELSE DrainBuffer(SubSeq(buf, cut + 1, Len(buf)),
                         IF line # <<>> THEN Append(log, Append(line, NL)) ELSE log,
                         LineProgress(line, progress))

\* The POST /backup requests handled, and the most characters one read of
\* the subprocess's output returns.
MaxStarts == 2
MaxRead == 2

\* The request bodies tried: a copy of the card's tree to the disk, and one
\* whose source path leaves the card.
GoodCfg ==
    [src |-> SD, dst |-> SSD, srcPath |-> <<>>, dstPath |-> <<>>, items |-> <<>>,
     backup_name |-> <<>>, overwrite |-> TRUE, verify |-> TRUE]
EscapeCfg == [GoodCfg EXCEPT !.srcPath = <<".", ".", "/", ".", ".">>]
ManualCfgs == {GoodCfg, EscapeCfg}

\* The subprocess outputs tried where runs overlap.
SampleOutputs == { <<>>, <<"4", "%", NL>> }

\* The outputs and exit codes of the runs the watchdog starts: a copy that
\* reports once and succeeds, loses files, or fails.
AutoOutputs == { <<"4", "%", NL>> }
AutoExitCodes == {0, 23, 1}

\* A run_backup call that was handed to a background task or a thread.  A
\* local variable holds a value only while the routine can still read it:
\* cfg up to line 304, the subprocess's output up to the end of the read
\* loop, the exit code up to its classification, the exception in its handler.
QueuedRun(origin, cfg) ==
    [origin |-> origin, cfg |-> Some(cfg), pc |-> "queued", stream |-> <<>>, pos |-> 0,
     buf |-> <<>>, rc |-> None, err |-> None]

\* A run is in progress from its first statement to its return.
InProgress(r) == r.pc # "queued"

\* A start_backup that answers 409 but queues the run all the same.
StartBackupQueueing(cfg) ==
    /\ nStarts < MaxStarts
    /\ nStarts' = nStarts + 1
    /\ runs' = Append(runs, QueuedRun("manual", cfg))
    /\ reply' = IF JOB.running THEN [status |-> 409, body |-> "conflict"]
                ELSE [status |-> 200, body |-> "started"]
    /\ UNCHANGED <<pv, sj, rg, driveVars, ej, JOB, settingsVars, tickVars>>

\* start_backup: 409 while JOB says running, else the run becomes a
\* background task and the response is {"status": "started"}.
StartBackup(cfg) ==
    /\ nStarts < MaxStarts
    /\ nStarts' = nStarts + 1
    /\ IF JOB.running
       THEN /\ reply' = [status |-> 409, body |-> "conflict"]
            /\ UNCHANGED <<JOB, runs>>
       ELSE /\ runs' = Append(runs, QueuedRun("manual", cfg))
            /\ reply' = [status |-> 200, body |-> "started"]
            /\ UNCHANGED JOB
    /\ UNCHANGED <<pv, sj, rg, driveVars, ej, settingsVars, tickVars>>

\* run_backup, lines 263-265: the record is reset and marked running.
RunBegin(r) ==
    /\ runs[r].pc = "queued"
    /\ JOB' = JobReset
    /\ runs' = [runs EXCEPT ![r].pc = "prepare"]
    /\ UNCHANGED <<pv, sj, rg, driveVars, ej, reply, nStarts, settingsVars, tickVars>>

\* The exception, if any, that lines 268-307 raise for a request: KeyError
\* for a drive that is not mounted, HTTPException for a path or an item
\* that safe_join rejects.
PrepareError(cfg) ==
    LET roots == AvailableDrives
        bad(d, rel) == SafeJoin(DriveRoot(d), rel).status = 400
    IN  IF cfg.src \notin roots \/ cfg.dst \notin roots THEN Some(<<"KeyError">>)
        ELSE IF bad(cfg.src, cfg.srcPath) \/ bad(cfg.dst, cfg.dstPath)
                \/ \E i \in 1..Len(cfg.items) : bad(cfg.src, cfg.items[i])
             THEN Some(<<"400: Invalid path">>)
        ELSE None

\* run_backup, lines 268-321: the drives are looked up, the paths resolved,
\* the destination made and rsync spawned; mkdir and Popen may raise OSError.
\* out is what the subprocess will write if it is spawned.
RunPrepare(r, out) ==
    /\ runs[r].pc = "prepare"
    /\ LET e == PrepareError(runs[r].cfg[1])
       IN  IF e # None
           THEN runs' = [runs EXCEPT ![r].pc = "except", ![r].cfg = None, ![r].err = e]
           ELSE \/ runs' = [runs EXCEPT ![r].pc = "except", ![r].cfg = None,
                                        ![r].err = Some(<<"OSError">>)]
                \/ runs' = [runs EXCEPT ![r].pc = "read", ![r].cfg = None,
                                        ![r].stream = out]
    /\ UNCHANGED <<pv, sj, rg, driveVars, ej, JOB, reply, nStarts, settingsVars, tickVars>>

\* run_backup, lines 325-341: one read of up to MaxRead characters, then
\* every complete line of the buffer is logged and searched for a percentage.
ReadChunk(r) ==
    /\ runs[r].pc = "read"
    /\ runs[r].pos < Len(runs[r].stream)
    /\ \E k \in 1..Min(MaxRead, Len(runs[r].stream) - runs[r].pos) :
         LET chunk == SubSeq(runs[r].stream, runs[r].pos + 1, runs[r].pos + k)
             d == DrainBuffer(runs[r].buf \o chunk, JOB.log, JOB.progress)
         IN  /\ runs' = [runs EXCEPT ![r].pos = @ + k, ![r].buf = d.buf]
             /\ JOB' = [JOB EXCEPT !.log = d.log, !.progress = d.progress]
    /\ UNCHANGED <<pv, sj, rg, driveVars, ej, reply, nStarts, settingsVars, tickVars>>

\* run_backup, lines 325-327 and 342-343: the read that returns nothing ends
\* the loop, and what is left in the buffer goes to the log.
ReadEof(r) ==
    /\ runs[r].pc = "read"
    /\ runs[r].pos = Len(runs[r].stream)
    /\ runs' = [runs EXCEPT ![r].pc = "wait", ![r].buf = <<>>, ![r].stream = <<>>,
                            ![r].pos = 0]
    /\ JOB' = IF runs[r].buf # <<>>
              THEN [JOB EXCEPT !.log = Append(@, Append(runs[r].buf, NL))]
              ELSE JOB
    /\ UNCHANGED <<pv, sj, rg, driveVars, ej, reply, nStarts, settingsVars, tickVars>>

\* run_backup, lines 345-346: proc.wait() returns with the subprocess's exit
\* code rc, then sync runs.
RunWait(r, rc) ==
    /\ runs[r].pc = "wait"
    /\ runs' = [runs EXCEPT ![r].pc = "classify", ![r].rc = Some(rc)]
    /\ UNCHANGED <<pv, sj, rg, driveVars, ej, JOB, reply, nStarts, settingsVars, tickVars>>

\* run_backup, lines 348-353: the exit code decides the result.
RunClassify(r) ==
    /\ runs[r].pc = "classify"
    /\ runs' = [runs EXCEPT ![r].pc = "finish", ![r].rc = None]
    /\ JOB' = [JOB EXCEPT !.result = Some(Classify(runs[r].rc[1]))]
    /\ UNCHANGED <<pv, sj, rg, driveVars, ej, reply, nStarts, settingsVars, tickVars>>

\* run_backup, lines 355-357: the exception handler.
RunExcept(r) ==
    /\ runs[r].pc = "except"
    /\ runs' = [runs EXCEPT ![r].pc = "finish", ![r].err = None]
    /\ JOB' = [JOB EXCEPT !.result = Some("failed"), !.log = Append(@, runs[r].err[1])]
    /\ UNCHANGED <<pv, sj, rg, driveVars, ej, reply, nStarts, settingsVars, tickVars>>

\* run_backup, line 359.
RunFinish(r) ==
    /\ runs[r].pc = "finish"
    /\ runs' = [runs EXCEPT ![r].pc = "stamp"]
    /\ JOB' = [JOB EXCEPT !.running = FALSE]
    /\ UNCHANGED <<pv, sj, rg, driveVars, ej, reply, nStarts, settingsVars, tickVars>>

\* runs without its r-th element.
Without(r) == SubSeq(runs, 1, r - 1) \o SubSeq(runs, r + 1, Len(runs))

\* run_backup, line 360, and the return: the execution is over and leaves
\* the set of runs.
RunStamp(r) ==
    /\ runs[r].pc = "stamp"
    /\ runs' = Without(r)
    /\ JOB' = [JOB EXCEPT !.finished_at = Some(now)]
    /\ UNCHANGED <<pv, sj, rg, driveVars, ej, reply, nStarts, settingsVars, tickVars>>

IdleJob ==
    /\ JOB = JobIdle
    /\ runs = <<>>
    /\ reply = [status |-> 0, body |-> "none"]
    /\ nStarts = 0

(***************************************************************************)
(* SettingsStore: the settings file.  Its text is a sequence of tokens,    *)
(* each a character sequence; a directory entry names an inode, and an     *)
(* open file keeps its inode whatever the names do.                        *)
(***************************************************************************)

DEFAULT_SETTINGS == [auto_backup |-> FALSE, last_auto |-> None, auto_latched |-> None]

OpenTok == <<"{">>
CloseTok == <<"}">>
NullTok == <<"n", "u", "l", "l">>
TrueTok == <<"t", "r", "u", "e">>
FalseTok == <<"f", "a", "l", "s", "e">>
EndTok == <<NL>>

\* json.dump(settings, f, indent=2) and the "\n" written after it.
Serialize(st) ==
    << OpenTok, IF st.auto_backup THEN TrueTok ELSE FalseTok >>
    \o (IF st.last_auto = None THEN <<NullTok>>
        ELSE << OpenTok, st.last_auto[1].drive, ToDigits(st.last_auto[1].mtime),
                st.last_auto[1].dst, ToDigits(st.last_auto[1].started_at), CloseTok >>)
    \o (IF st.auto_latched = None THEN <<NullTok>>
        ELSE << OpenTok, st.auto_latched[1].sd, st.auto_latched[1].ssd, CloseTok >>)
    \o << CloseTok, EndTok >>

At(c, i) == IF 1 <= i /\ i <= Len(c) THEN c[i] ELSE <<>>

AllDigits(t) == t # <<>> /\ \A i \in 1..Len(t) : IsDigit(t[i])

\* json.load(f) on the text c: the record it holds, or ok = FALSE when the
\* text is no single complete document (json.load raises).
ParseSettings(c) ==
    LET lastObj == At(c, 3) = OpenTok
        lastOk == IF lastObj
                  THEN AllDigits(At(c, 5)) /\ AllDigits(At(c, 7)) /\ At(c, 8) = CloseTok
                  ELSE At(c, 3) = NullTok
        n == IF lastObj THEN 9 ELSE 4
        latchObj == At(c, n) = OpenTok
        latchOk == IF latchObj THEN At(c, n + 3) = CloseTok ELSE At(c, n) = NullTok
        m == IF latchObj THEN n + 4 ELSE n + 1
        shape == /\ At(c, 1) = OpenTok
                 /\ At(c, 2) \in {TrueTok, FalseTok}
                 /\ lastOk
                 /\ latchOk
                 /\ At(c, m) = CloseTok
                 /\ \/ Len(c) = m
                    \/ Len(c) = m + 1 /\ c[m + 1] = EndTok
        val == [auto_backup |-> At(c, 2) = TrueTok,
                last_auto |-> IF lastObj
                              THEN Some([drive |-> At(c, 4), mtime |-> DigitsValue(At(c, 5), 0),
                                         dst |-> At(c, 6),
                                         started_at |-> DigitsValue(At(c, 7), 0)])
                              ELSE None,
                auto_latched |-> IF latchObj
                                 THEN Some([sd |-> At(c, n + 1), ssd |-> At(c, n + 2)])
                                 ELSE None]
    IN  IF shape /\ Serialize(val) \in {c, Append(c, EndTok)}
        THEN [ok |-> TRUE, val |-> val]
        ELSE [ok |-> FALSE, val |-> DEFAULT_SETTINGS]

\* The POST /settings requests handled.
MaxPosts == 1

\* The inodes the settings directory can need at once: the settings file,
\* the temporary file, and one per writer holding a file open.
Inodes == 1..(MaxPosts + 3)

\* The inodes the open files of the writers refer to.
OpenInodes == {wd.fd} \cup {posts[i].fd : i \in DOMAIN posts}

\* f with the text of every inode that has neither a name nor an open file
\* dropped, as the filesystem frees it; fds are the inodes still open.
Collect(f, fds) ==
    [f EXCEPT !.data = [i \in Inodes |->
        IF i \in ({f.settings, f.tmp} \cup fds) THEN f.data[i] ELSE <<>>]]

\* load_settings(): the defaults when the file is missing or json.load
\* raises, else the defaults updated with the file's record.
LoadSettings ==
    IF files.settings = 0 THEN DEFAULT_SETTINGS
    ELSE ParseSettings(files.data[files.settings]).val

\* save_settings, line 97: tmp.open("w") makes the temporary file, or
\* empties the one that is there; the inode the writer holds.
OpenTmpInode ==
    IF files.tmp # 0 THEN files.tmp
    ELSE CHOOSE i \in Inodes :
            /\ i \notin ({files.settings} \cup OpenInodes)
            /\ \A j \in Inodes : j \notin ({files.settings} \cup OpenInodes) => i <= j

OpenTmpFiles ==
    [files EXCEPT !.tmp = OpenTmpInode, !.data[OpenTmpInode] = <<>>]

\* save_settings, lines 98-99 and the end of the with block: the buffered
\* text reaches the inode in one write at offset 0, which keeps whatever
\* the inode holds beyond the text's length.
WriteText(old, text) ==
    text \o SubSeq(old, Len(text) + 1, Len(old))

\* save_settings, line 100: tmp.replace(SETTINGS_PATH).
ReplaceFiles(f) == [f EXCEPT !.settings = f.tmp, !.tmp = 0]

IdleSettings ==
    /\ files = [settings |-> 0, tmp |-> 0, data |-> [i \in Inodes |-> <<>>]]
    /\ wd = [pc |-> "sleep", settings |-> DEFAULT_SETTINGS, fd |-> 0, caught |-> 0]
    /\ posts = <<>>
    /\ lastRead = None

IdleTicks ==
    /\ now = 1
    /\ prevTick = None
    /\ lastTick = None

\* POST /settings, lines 110-112: load, then set auto_backup when the body
\* names it (v is None when it does not).
PostSettings(v) ==
    /\ Len(posts) < MaxPosts
    /\ LET st == LoadSettings
       IN  posts' = Append(posts,
                [pc |-> "open", fd |-> 0, status |-> 0,
                 settings |-> IF v = None THEN st ELSE [st EXCEPT !.auto_backup = v[1]]])
    /\ UNCHANGED <<pv, sj, rg, driveVars, ej, jobVars, files, wd, lastRead, tickVars>>

PostSaveOpen(i) ==
    /\ posts[i].pc = "open"
    /\ files' = OpenTmpFiles
    /\ posts' = [posts EXCEPT ![i].pc = "write", ![i].fd = OpenTmpInode]
    /\ UNCHANGED <<pv, sj, rg, driveVars, ej, jobVars, wd, lastRead, tickVars>>

PostSaveWrite(i) ==
    /\ posts[i].pc = "write"
    /\ posts' = [posts EXCEPT ![i].pc = "replace", ![i].fd = 0]
    /\ files' = Collect([files EXCEPT !.data[posts[i].fd] =
                            WriteText(@, Serialize(posts[i].settings))],
                        {wd.fd} \cup {posts[j].fd : j \in DOMAIN posts \ {i}})
    /\ UNCHANGED <<pv, sj, rg, driveVars, ej, jobVars, wd, lastRead, tickVars>>

\* The replace raises FileNotFoundError when another writer has renamed the
\* temporary file away; the handler then answers 500.
PostSaveReplace(i) ==
    /\ posts[i].pc = "replace"
    /\ IF files.tmp # 0
       THEN /\ files' = Collect(ReplaceFiles(files), OpenInodes)
            /\ posts' = [posts EXCEPT ![i].pc = "done", ![i].status = 200]
       ELSE /\ files' = files
            /\ posts' = [posts EXCEPT ![i].pc = "done", ![i].status = 500]
    /\ UNCHANGED <<pv, sj, rg, driveVars, ej, jobVars, wd, lastRead, tickVars>>

\* GET /settings: what load_settings reads from the file (None when the
\* file is missing).
GetSettings ==
    /\ lastRead' = IF files.settings = 0 THEN None
                   ELSE Some(files.data[files.settings])
    /\ UNCHANGED <<pv, sj, rg, driveVars, ej, jobVars, files, wd, posts, tickVars>>

(***************************************************************************)
(* AutoBackupWatchdog: _auto_backup_loop, auto_backup_check, _pick_drive.  *)
(***************************************************************************)

\* The ticks the watchdog makes.
MaxTicks == 2

\* str.lower() on the letters drive names are written with.
Lower(c) ==
    IF c = "S" THEN "s" ELSE IF c = "D" THEN "d" ELSE c

LowerStr(t) == [i \in 1..Len(t) |-> Lower(t[i])]

\* sub in t, for character sequences.
Contains(t, sub) ==
    \E i \in 0..(Len(t) - Len(sub)) : SubSeq(t, i + 1, i + Len(sub)) = sub

\* _pick_drive(roots, include, exclude): the drives it may return, which
\* are the candidates with the latest modification time (the sort keeps
\* directory order among equals); exclude is None or Some(text).
PickDrive(roots, include, exclude) ==
    LET cands == {d \in roots :
                    /\ Contains(LowerStr(d), LowerStr(include))
                    /\ exclude = None \/ ~Contains(LowerStr(d), LowerStr(exclude[1]))}
    IN  {d \in cands : \A e \in cands : mtime[e] <= mtime[d]}

\* The request auto_backup_check builds, lines 408-415.
AutoCfg(sd, ssd) ==
    [src |-> sd, dst |-> ssd, srcPath |-> <<>>, dstPath |-> <<>>, items |-> <<>>,
     backup_name |-> <<"a", "u", "t", "o", "_">> \o sd, verify |-> FALSE,
     overwrite |-> FALSE]

\* The exceptions a tick raises: of stat() on the card's root (line 402) and
\* of the files of save_settings, and of Thread.start (line 416).
TickExceptions == {"OSError", "FileNotFoundError", "RuntimeError"}

\* The base class of each exception class.
ExceptionBase(c) ==
    IF c = "FileNotFoundError" THEN "OSError"
    ELSE IF c \in {"OSError", "RuntimeError"} THEN "Exception"
    ELSE "BaseException"

\* isinstance(exc, cls) for an exception of class c.
RECURSIVE IsInstance(_, _)
IsInstance(c, cls) ==
    \/ c = cls
    \/ c # "BaseException" /\ IsInstance(ExceptionBase(c), cls)

\* A loop whose except clause names OSError.
LoopCatchesOSError(c) == IsInstance(c, "OSError")

\* except Exception, app.py line 24.
LoopCatches(c) == IsInstance(c, "Exception")

\* A comparison that takes the card for unchanged when its modification
\* time is another.
FingerprintMatchesChanged(st, sd) ==
    /\ st.last_auto # None
    /\ st.last_auto[1].drive = sd
    /\ st.last_auto[1].mtime # mtime[sd]

\* Lines 404-405: the fingerprint of settings st is that of card sd.
FingerprintMatches(st, sd) ==
    /\ st.last_auto # None
    /\ st.last_auto[1].drive = sd
    /\ st.last_auto[1].mtime = mtime[sd]

\* The tick returns without saving, and the loop sleeps.
TickReturn ==
    /\ wd' = [wd EXCEPT !.pc = "sleep"]
    /\ now' = now + 1
    /\ prevTick' = lastTick
    /\ lastTick' = None
    /\ UNCHANGED <<runs, files>>

\* The tick clears the latch it found held and goes on to save.
TickClear(st) ==
    IF st.auto_latched # None
    THEN /\ wd' = [wd EXCEPT !.pc = "open", !.settings = [st EXCEPT !.auto_latched = None]]
         /\ prevTick' = lastTick
         /\ lastTick' = None
         /\ UNCHANGED <<runs, files, now>>
    ELSE TickReturn

\* auto_backup_check, lines 376-423: the settings are loaded, JOB and the
\* drives inspected; the tick returns, or clears the latch, or starts the
\* run's thread and sets the fingerprint and the latch in its settings.
TickBegin ==
    /\ wd.pc = "sleep"
    /\ now <= MaxTicks
    /\ LET st == LoadSettings
           roots == AvailableDrives
           sds == PickDrive(roots, SD, Some(SSD))
           ssds == PickDrive(roots, SSD, None)
       IN  IF ~st.auto_backup \/ JOB.running THEN TickReturn
           ELSE IF roots = {} \/ sds = {} \/ ssds = {} THEN TickClear(st)
           ELSE IF st.auto_latched # None THEN TickReturn
           ELSE \E sd \in sds, ssd \in ssds :
                  IF FingerprintMatches(st, sd)
                  THEN TickReturn
                  ELSE /\ runs' = Append(runs, QueuedRun("auto", AutoCfg(sd, ssd)))
                       /\ wd' = [wd EXCEPT
                             !.pc = "open",
                             !.settings = [st EXCEPT
                                !.last_auto = Some([drive |-> sd, mtime |-> mtime[sd],
                                                    dst |-> ssd, started_at |-> now]),
                                !.auto_latched = Some([sd |-> sd, ssd |-> ssd])]]
                       /\ prevTick' = lastTick
                       /\ lastTick' = Some([drive |-> sd, mtime |-> mtime[sd]])
                       /\ UNCHANGED <<files, now>>
    /\ UNCHANGED <<pv, sj, rg, driveVars, ej, JOB, reply, nStarts, posts, lastRead>>

\* save_settings in the tick, line 97.
TickSaveOpen ==
    /\ wd.pc = "open"
    /\ files' = OpenTmpFiles
    /\ wd' = [wd EXCEPT !.pc = "write", !.fd = OpenTmpInode]
    /\ UNCHANGED <<pv, sj, rg, driveVars, ej, jobVars, posts, lastRead, tickVars>>

\* save_settings in the tick, lines 98-99.
TickSaveWrite ==
    /\ wd.pc = "write"
    /\ wd' = [wd EXCEPT !.pc = "replace", !.fd = 0]
    /\ files' = Collect([files EXCEPT !.data[wd.fd] = WriteText(@, Serialize(wd.settings))],
                        {posts[j].fd : j \in DOMAIN posts})
    /\ UNCHANGED <<pv, sj, rg, driveVars, ej, jobVars, posts, lastRead, tickVars>>

\* save_settings in the tick, line 100, then the loop's sleep; the loop
\* swallows the FileNotFoundError of a replace whose temporary file is gone.
TickSaveReplace ==
    /\ wd.pc = "replace"
    /\ files' = IF files.tmp # 0 THEN Collect(ReplaceFiles(files), OpenInodes) ELSE files
    /\ wd' = [wd EXCEPT !.pc = IF files.tmp # 0 \/ LoopCatches("FileNotFoundError")
                               THEN "sleep" ELSE "dead"]
    /\ now' = now + 1
    /\ UNCHANGED <<pv, sj, rg, driveVars, ej, jobVars, posts, lastRead, prevTick, lastTick>>

\* The tick gets as far as line 402, and as far as line 416.
TickReachesStat ==
    LET st == LoadSettings
        roots == AvailableDrives
    IN  /\ st.auto_backup /\ ~JOB.running /\ st.auto_latched = None
        /\ PickDrive(roots, SD, Some(SSD)) # {}
        /\ PickDrive(roots, SSD, None) # {}

TickReachesStart ==
    /\ TickReachesStat
    /\ LET st == LoadSettings
       IN  \E sd \in PickDrive(AvailableDrives, SD, Some(SSD)) :
              ~FingerprintMatches(st, sd)

\* The exception leaves the tick: the loop swallows it and sleeps, app.py
\* lines 24-26, or the thread ends with it.  wd.caught is the tick it was
\* swallowed in.
TickLeft(c) ==
    /\ wd' = [wd EXCEPT !.pc = IF LoopCatches(c) THEN "sleep" ELSE "dead",
                        !.fd = 0,
                        !.caught = IF LoopCatches(c) THEN now ELSE @]
    /\ now' = now + 1

\* A tick raises: stat() on the card's root or Thread.start before anything
\* is changed, or open, write or replace of save_settings.
TickRaise(c) ==
    /\ \/ /\ wd.pc = "sleep" /\ now <= MaxTicks
          /\ \/ c \in {"OSError", "FileNotFoundError"} /\ TickReachesStat
             \/ c = "RuntimeError" /\ TickReachesStart
          /\ prevTick' = lastTick
          /\ lastTick' = None
          /\ UNCHANGED files
       \/ /\ wd.pc \in {"open", "write", "replace"}
          /\ c = "OSError"
          /\ files' = Collect(files, {posts[j].fd : j \in DOMAIN posts})
          /\ UNCHANGED <<prevTick, lastTick>>
    /\ TickLeft(c)
    /\ UNCHANGED <<pv, sj, rg, driveVars, ej, jobVars, posts, lastRead>>

(***************************************************************************)
(* The specifications.  Spec is the whole backend.  Properties are checked *)
(* under its parts: SpecJob is the job engine under POST /backup requests, *)
(* SpecAuto the watchdog with the settings file and the runs it starts,    *)
(* SpecSettings the settings file under all its writers and readers,       *)
(* SpecWatch the watchdog alone while media come and go, SpecLoop its loop *)
(* with ticks that raise, SpecPreview the preview cache, SpecParse the     *)
(* read loop of one run on every short output, SpecPath, SpecRange and     *)
(* SpecEject one handler each.  Every behaviour of a part is a behaviour   *)
(* of the whole.                                                           *)
(***************************************************************************)

\* A medium is plugged in or pulled out.  The card's modification time is
\* among ts; the disk's, which only ever orders a single candidate, is 1.
MediaChange(ts) ==
    /\ \/ \E t \in ts : Mount(SD, t)
       \/ Mount(SSD, 1)
       \/ \E d \in {SD, SSD} : Unplug(d)
    /\ UNCHANGED <<pv, sj, rg, ej, jobVars, settingsVars, tickVars>>

\* A second card, SD2, is plugged in with a modification time among ts, or
\* pulled out.
OtherCard(ts) ==
    /\ \/ \E t \in ts : Mount(SD2, t)
       \/ Unplug(SD2)
    /\ UNCHANGED <<sj, rg, pv, ej, jobVars, settingsVars, tickVars>>

\* One step of some run_backup execution whose subprocess writes one of
\* outs and exits with one of rcs.
RunStep(outs, rcs) ==
    \/ \E r \in DOMAIN runs : RunBegin(r)
    \/ \E r \in DOMAIN runs, out \in outs : RunPrepare(r, out)
    \/ \E r \in DOMAIN runs : ReadChunk(r)
    \/ \E r \in DOMAIN runs : ReadEof(r)
    \/ \E r \in DOMAIN runs, rc \in rcs : RunWait(r, rc)
    \/ \E r \in DOMAIN runs : RunClassify(r)
    \/ \E r \in DOMAIN runs : RunExcept(r)
    \/ \E r \in DOMAIN runs : RunFinish(r)
    \/ \E r \in DOMAIN runs : RunStamp(r)

\* safe_join on every relative path up to MaxRelLen characters.
InitPath ==
    /\ PathInputs /\ IdleRange /\ IdlePreview /\ IdleDrives /\ IdleEject /\ IdleJob
    /\ IdleSettings /\ IdleTicks

NextPath == SafeJoinCall

SpecPath == InitPath /\ [][NextPath]_vars

\* _file_stream_response on every file size and range header tried.
InitRange ==
    /\ IdlePath /\ RangeInputs /\ IdlePreview /\ IdleDrives /\ IdleEject /\ IdleJob
    /\ IdleSettings /\ IdleTicks

NextRange == FileStreamResponse \/ IterFile

SpecRange == InitRange /\ [][NextRange]_vars

\* Eject requests while media come and go.
InitEject ==
    /\ IdlePath /\ IdleRange /\ IdlePreview /\ AnyDrives({1}) /\ IdleEject /\ IdleJob
    /\ IdleSettings /\ IdleTicks

NextEject ==
    \/ MediaChange({1})
    \/ \E d \in EjectIds : EjectDrive(d)
    \/ \E i \in DOMAIN ej : EjectSync(i)
    \/ \E i \in DOMAIN ej : EjectUmount(i)

SpecEject == InitEject /\ [][NextEject]_vars

\* The job engine: POST /backup requests and the runs they start, while
\* media come and go.  No action of it reads a modification time.
InitJob ==
    /\ IdlePath /\ IdleRange /\ IdlePreview /\ AnyDrives({1}) /\ IdleEject /\ IdleJob
    /\ IdleSettings /\ IdleTicks

NextJob ==
    \/ MediaChange({1})
    \/ \E cfg \in ManualCfgs : StartBackup(cfg)
    \/ RunStep(SampleOutputs, ExitCodes)

SpecJob == InitJob /\ [][NextJob]_vars

\* The read loop of one run, on every output of at most MaxOut characters
\* over OutChars, read in chunks of every size up to MaxRead.
MaxOut == 6

OutChars == {"4", "2", "%", NL, CR}

InitParse ==
    /\ IdlePath /\ IdleRange /\ IdlePreview /\ IdleDrives /\ IdleEject
    /\ IdleSettings /\ IdleTicks
    /\ JOB = JobReset
    /\ runs \in {<<[QueuedRun("manual", GoodCfg) EXCEPT
                        !.pc = "read", !.cfg = None, !.stream = out]>> :
                    out \in Strings(OutChars, MaxOut)}
    /\ reply = [status |-> 200, body |-> "started"]
    /\ nStarts = 1

NextParse ==
    \/ \E r \in DOMAIN runs : ReadChunk(r)
    \/ \E r \in DOMAIN runs : ReadEof(r)

SpecParse == InitParse /\ [][NextParse]_vars

\* The settings file as the program leaves it: missing, or one complete
\* save of settings without fingerprint and latch.
AnySettings ==
    /\ files \in
         {[settings |-> 0, tmp |-> 0, data |-> [i \in Inodes |-> <<>>]]}
         \cup {[settings |-> 1, tmp |-> 0,
                data |-> [i \in Inodes |->
                    IF i = 1 THEN Serialize([DEFAULT_SETTINGS EXCEPT !.auto_backup = b])
                    ELSE <<>>]] : b \in BOOLEAN}
    /\ wd = [pc |-> "sleep", settings |-> DEFAULT_SETTINGS, fd |-> 0, caught |-> 0]
    /\ posts = <<>>
    /\ lastRead = None

\* One step of the watchdog thread.
TickStep == TickBegin \/ TickSaveOpen \/ TickSaveWrite \/ TickSaveReplace

\* One step of some POST /settings handler.
PostStep ==
    \/ \E v \in {None, Some(TRUE), Some(FALSE)} : PostSettings(v)
    \/ \E i \in DOMAIN posts : PostSaveOpen(i)
    \/ \E i \in DOMAIN posts : PostSaveWrite(i)
    \/ \E i \in DOMAIN posts : PostSaveReplace(i)

\* The watchdog, the settings handlers and the runs the watchdog starts,
\* while media come and go.
InitAuto ==
    /\ IdlePath /\ IdleRange /\ IdlePreview /\ AnyDrives(Mtimes) /\ IdleEject /\ IdleJob
    /\ AnySettings /\ IdleTicks

NextAuto ==
    \/ MediaChange(Mtimes)
    \/ RunStep(AutoOutputs, AutoExitCodes)
    \/ TickStep
    \/ PostStep

SpecAuto == InitAuto /\ [][NextAuto]_vars

\* The settings file under its writers and readers: the watchdog with its
\* runs, the POST /settings handlers and GET /settings, the media staying
\* as they are.
InitSettings ==
    /\ IdlePath /\ IdleRange /\ IdlePreview /\ AnyDrives(Mtimes) /\ IdleEject /\ IdleJob
    /\ AnySettings /\ IdleTicks

NextSettings ==
    \/ RunStep(AutoOutputs, AutoExitCodes)
    \/ TickStep
    \/ PostStep
    \/ GetSettings

SpecSettings == InitSettings /\ [][NextSettings]_vars

\* The settings the ticks of an earlier run of the watchdog leave saved: a
\* latch is saved together with a fingerprint.
SavedSettings ==
    { st \in [auto_backup : BOOLEAN,
              last_auto : {None} \cup
                  {Some([drive |-> SD, mtime |-> t, dst |-> SSD, started_at |-> 0]) :
                      t \in Mtimes},
              auto_latched : {None, Some([sd |-> SD, ssd |-> SSD])}] :
        st.auto_latched # None => st.last_auto # None }

\* The settings file missing, or one complete save of such settings.
WatchedSettings ==
    /\ files \in
         {[settings |-> 0, tmp |-> 0, data |-> [i \in Inodes |-> <<>>]]}
         \cup {[settings |-> 1, tmp |-> 0,
                data |-> [i \in Inodes |-> IF i = 1 THEN Serialize(st) ELSE <<>>]] :
                  st \in SavedSettings}
    /\ wd = [pc |-> "sleep", settings |-> DEFAULT_SETTINGS, fd |-> 0, caught |-> 0]
    /\ posts = <<>>
    /\ lastRead = None

\* One step of the watchdog's thread, app.py lines 20-26.
WatchdogStep == TickStep \/ \E c \in TickExceptions : TickRaise(c)

\* The watchdog's loop with the runs it starts, its ticks raising or not,
\* the media staying as they are.  The thread is scheduled: a step it can
\* take, it takes.
InitLoop ==
    /\ IdlePath /\ IdleRange /\ IdlePreview /\ AnyDrives({1}) /\ IdleEject /\ IdleJob
    /\ AnySettings /\ IdleTicks

NextLoop ==
    \/ RunStep({<<NL>>}, {0})
    \/ TickStep
    \/ \E c \in TickExceptions : TickRaise(c)

SpecLoop == InitLoop /\ [][NextLoop]_vars /\ WF_vars(WatchdogStep)

\* The watchdog alone with the runs it starts, while cards and the disk
\* come and go.
InitWatch ==
    /\ IdlePath /\ IdleRange /\ IdlePreview /\ AnyDrives(Mtimes) /\ IdleEject /\ IdleJob
    /\ WatchedSettings /\ IdleTicks

NextWatch ==
    \/ MediaChange(Mtimes)
    \/ OtherCard({1})
    \/ RunStep(AutoOutputs, {0})
    \/ TickStep

SpecWatch == InitWatch /\ [][NextWatch]_vars

\* The preview cache under requests for RAW files that are rewritten and
\* touched in between.
InitPreview ==
    /\ IdlePath /\ IdleRange /\ IdlePreview /\ IdleDrives /\ IdleEject /\ IdleJob
    /\ IdleSettings /\ IdleTicks

NextPreview ==
    \/ TouchRaw
    \/ \E f \in RawFiles : BuildRawPreview(f)
    \/ \E i \in DOMAIN pv.calls : GenerateRawPreview(i)

SpecPreview == InitPreview /\ [][NextPreview]_vars

\* The whole backend.
Init ==
    /\ IdlePath /\ IdleRange /\ IdlePreview /\ AnyDrives(Mtimes) /\ IdleEject /\ IdleJob
    /\ AnySettings /\ IdleTicks

Next ==
    \/ MediaChange(Mtimes)
    \/ \E cfg \in ManualCfgs : StartBackup(cfg)
    \/ RunStep(SampleOutputs, ExitCodes)
    \/ TickStep
    \/ PostStep
    \/ GetSettings
    \/ \E d \in EjectIds : EjectDrive(d)
    \/ \E i \in DOMAIN ej : EjectSync(i)
    \/ \E i \in DOMAIN ej : EjectUmount(i)
    \/ TouchRaw
    \/ \E f \in RawFiles : BuildRawPreview(f)
    \/ \E i \in DOMAIN pv.calls : GenerateRawPreview(i)
    \/ OtherCard(Mtimes)
    \/ \E c \in TickExceptions : TickRaise(c)

Spec == Init /\ [][Next]_vars

(***************************************************************************)
(* The properties checked.                                                 *)
(***************************************************************************)

\* C1: at most one run_backup execution is between its first statement and
\* its return, in every reachable state.
AtMostOneRun ==
    Cardinality({r \in DOMAIN runs : InProgress(runs[r])}) <= 1

\* C2: a POST /backup handled while JOB says running answers 409, leaves
\* every field of JOB as it was and launches no run.
RejectedStartChangesNothing ==
    [][(nStarts' # nStarts /\ JOB.running)
        => (reply'.status = 409 /\ JOB' = JOB /\ runs' = runs)]_vars

\* A start was just rejected while a run held the flag.
RejectedStartSeen ==
    /\ reply.status = 409
    /\ JOB.running
    /\ \E r \in DOMAIN runs : InProgress(runs[r])

\* C3: once a run has returned (finished_at is written by a run's last
\* statement and cleared only by the next run's first), the record says not
\* running and holds a result among success, warning and failed.
ReturnedRunIsSettled ==
    JOB.finished_at # None
        => (JOB.running = FALSE /\ JOB.result \in {Some(x) : x \in Results})

\* C4: no two consecutive ticks both start a run for the same card (drive
\* id and modification time).
NoRepeatedTrigger ==
    ~(prevTick # None /\ prevTick = lastTick)

\* Path p is root or nested under it, component by component.
IsUnder(p, root) ==
    /\ Len(root) <= Len(p)
    /\ SubSeq(p, 1, Len(root)) = root

\* C5: safe_join returns a path exactly when the canonical result is the
\* canonical root or lies under it component by component; every other input
\* raises 400 and returns no path.
SafeJoinContained ==
    sj.pc = "ret" /\ sj.out.status # 0
        => LET stripped == LStrip(RStrip(LStrip(sj.rel, Whitespace), Whitespace), {"/"})
               target == Resolve(sj.root \o PathParts(stripped))
           IN  IF IsUnder(target, Resolve(sj.root))
               THEN sj.out = [status |-> 200, path |-> Some(target)]
               ELSE sj.out = [status |-> 400, path |-> None]

\* The result the contract assigns to an exit code.
ResultOfExit(rc) ==
    CASE rc = 0 -> "success"
      [] rc = 23 \/ rc = 24 -> "warning"
      [] OTHER -> "failed"

\* C6: the statement that classifies the subprocess's exit sets the result
\* from the exit code alone: 0 success, 23 and 24 warning, any other failed.
ExitCodeDecidesResult ==
    [][\A r \in DOMAIN runs :
          (runs[r].pc = "classify" /\ Len(runs') = Len(runs) /\ runs'[r].pc = "finish")
              => JOB'.result = Some(ResultOfExit(runs[r].rc[1]))]_vars

\* A run has just classified a partial failure.
WarningClassified ==
    \E r \in DOMAIN runs : runs[r].pc = "finish" /\ JOB.result = Some("warning")

\* The positions of the line terminators in text.
LineEnds(text) == {i \in 1..Len(text) : text[i] = NL \/ text[i] = CR}

\* The line of text that the terminator at position e ends.
LineBefore(text, e) ==
    LET before == {i \in LineEnds(text) : i < e}
        from == IF before = {} THEN 1
                ELSE (CHOOSE i \in before : \A j \in before : j <= i) + 1
    IN  SubSeq(text, from, e - 1)

\* The positions in line of a "%" that follows a digit.
PercentSigns(line) == {j \in 2..Len(line) : line[j] = "%" /\ IsDigit(line[j - 1])}

\* The number before the first "%" of line that follows a digit.
PercentOf(line) ==
    LET j == CHOOSE k \in PercentSigns(line) : \A m \in PercentSigns(line) : k <= m
        starts == {i \in 1..(j - 1) : \A m \in i..(j - 1) : IsDigit(line[m])}
        i == CHOOSE k \in starts : \A m \in starts : k <= m
    IN  DigitsValue(SubSeq(line, i, j - 1), 0)

\* progress once the lines of text that end after position from are
\* processed, when it was before: the percentage of the last of them that
\* holds one, else before.
ProgressAfter(text, from, before) ==
    LET ends == {e \in LineEnds(text) : e > from /\ PercentSigns(LineBefore(text, e)) # {}}
    IN  IF ends = {} THEN before
        ELSE PercentOf(LineBefore(text, CHOOSE e \in ends : \A f \in ends : f <= e))

\* C7: each read of the subprocess's output leaves progress at the
\* percentage of the last line, among those the read completes, that holds
\* NN%, and unchanged when none of them does; a lower number overwrites a
\* higher one.
ProgressFollowsOutput ==
    [][\A r \in DOMAIN runs :
          (/\ runs[r].pc = "read"
           /\ Len(runs') = Len(runs)
           /\ runs'[r].pc = "read"
           /\ runs'[r].pos > runs[r].pos)
              => JOB'.progress =
                    ProgressAfter(SubSeq(runs[r].stream, 1, runs'[r].pos),
                                  runs[r].pos, JOB.progress)]_vars

\* A run has read "4%" and then "2%", the second ended by "\r".
LowerPercentRead ==
    \E r \in DOMAIN runs :
        /\ runs[r].pc = "read"
        /\ runs[r].pos = 6
        /\ runs[r].stream = <<"4", "%", NL, "2", "%", CR>>
        /\ JOB.progress = 2

\* The range a bytes=<start>-<end> header asks for.
WantedStart == IF rg.wantStart = None THEN 0 ELSE rg.wantStart[1]
WantedEnd == IF rg.wantEnd = None THEN rg.size - 1 ELSE rg.wantEnd[1]

\* The response to the range WantedStart..WantedEnd when rejected says
\* whether it is to be rejected.
RangeAnswer(rejected) ==
    IF rejected
    THEN rg.status = 416 /\ rg.sent = 0
    ELSE /\ rg.status = 206
         /\ rg.contentLength = WantedEnd - WantedStart + 1
         /\ rg.contentRange =
              Some(<<"b", "y", "t", "e", "s", " ">> \o ToDigits(WantedStart) \o <<"-">>
                   \o ToDigits(WantedEnd) \o <<"/">> \o ToDigits(rg.size))
         /\ rg.sent <= WantedEnd - WantedStart + 1
         /\ rg.pc = "done" => rg.sent = WantedEnd - WantedStart + 1

\* The two documented requests on a file of 1000 bytes.
RangeExamples ==
    /\ (/\ rg.size = 1000
        /\ rg.header = Some(<<"b", "y", "t", "e", "s", "=", "1", "0", "0", "-", "1", "9", "9">>)
        /\ rg.pc = "done")
          => /\ rg.status = 206
             /\ rg.sent = 100
             /\ rg.contentRange = Some(<<"b", "y", "t", "e", "s", " ", "1", "0", "0", "-",
                                         "1", "9", "9", "/", "1", "0", "0", "0">>)
    /\ (/\ rg.size = 1000
        /\ rg.header = Some(<<"b", "y", "t", "e", "s", "=", "9", "0", "0", "-",
                              "9", "9", "9", "9", "9", "9">>)
        /\ rg.pc = "done")
          => rg.status = 416 /\ rg.sent = 0

\* C8, as the specification words it: a range is rejected with 416 exactly
\* when start > end or end exceeds the file size, and else answered with 206,
\* end - start + 1 bytes and the content range bytes start-end/N.
RangeRejectedBeyondSize ==
    (rg.form = "range" /\ rg.pc # "call")
        => RangeAnswer(WantedStart > WantedEnd \/ WantedEnd > rg.size)

\* C8, as the code has it: a range is rejected with 416 exactly when
\* start > end or end is not below the file size (end >= N), and else
\* answered with 206, end - start + 1 bytes and the content range
\* bytes start-end/N; bytes=100-199 of 1000 bytes gives 100 bytes with
\* bytes 100-199/1000, and bytes=900-999999 is rejected.
RangeRejectedFromSize ==
    /\ (rg.form = "range" /\ rg.pc # "call")
          => RangeAnswer(WantedStart > WantedEnd \/ WantedEnd >= rg.size)
    /\ RangeExamples

\* A range that ends exactly at the file size was rejected.
RangeEndAtSizeRejected ==
    /\ rg.form = "range"
    /\ rg.pc = "done"
    /\ rg.size > 0
    /\ rg.wantStart = Some(0)
    /\ rg.wantEnd = Some(rg.size)
    /\ rg.status = 416

\* The contents of the settings file that are one complete save.
CompleteSave(text) ==
    LET p == ParseSettings(text)
    IN  p.ok /\ text = Serialize(p.val)

\* C9: whatever a reader finds in the settings file is the complete content
\* of one save.
ReadsAreCompleteSaves ==
    lastRead # None => CompleteSave(lastRead[1])

\* C10: a request to eject an id that is not a mounted drive is answered 404
\* with no command issued; the commands a handler issues are sync and then
\* umount of the drive, and only for an id that was a mounted drive.
EjectOnlyMounted ==
    [][/\ Len(ej') > Len(ej)
          => LET h == ej'[Len(ej')]
             IN  /\ h.issued = <<>>
                 /\ IF h.drive \in mounted
                    THEN h.status = 0 /\ h.pc # "done"
                    ELSE h.status = 404 /\ h.pc = "done"
       /\ \A i \in DOMAIN ej :
            ej'[i].issued # ej[i].issued
                => /\ ej[i].status = 0
                   /\ \/ ej[i].issued = <<>> /\ ej'[i].issued = << <<"sync">> >>
                      \/ /\ ej[i].issued = << <<"sync">> >>
                         /\ ej'[i].issued = << <<"sync">>, <<"umount", ej[i].drive>> >>]_vars

\* Ejecting a drive directory that is not mounted was answered 404.
UnmountedEjectRefused ==
    \E i \in DOMAIN ej :
        /\ ej[i].drive \in DriveIds
        /\ ej[i].status = 404
        /\ ej[i].issued = <<>>


\* The call a step begins, and the earlier calls that had returned an
\* artifact of the same RAW file by then.
CallBegins == Len(pv'.calls) > Len(pv.calls)

NewCall == pv'.calls[Len(pv'.calls)]

ReturnedBefore ==
    { i \in DOMAIN pv.calls :
        /\ pv.calls[i].pc = "done" /\ pv.calls[i].status = 200
        /\ pv.calls[i].target = NewCall.target }

\* C12 as stated: a call for a RAW file whose (path, mtime, size) is what an
\* earlier call returned an artifact for returns the same artifact path and
\* generates nothing; a call that finds another modification time than the
\* last of these calls has another artifact path and generates the preview
\* again.
PreviewRegeneratedOnTouch ==
    [][CallBegins =>
         /\ \A i \in ReturnedBefore :
              /\ pv.calls[i].st = pv.stat[NewCall.target]
                   => /\ NewCall.dst = pv.calls[i].dst
                      /\ NewCall.pc = "done" /\ ~NewCall.generated
              /\ pv.calls[i].st.mtime # pv.stat[NewCall.target].mtime
                   => NewCall.dst # pv.calls[i].dst
         /\ \A i \in ReturnedBefore :
              /\ \A j \in ReturnedBefore : j <= i
              /\ pv.calls[i].st.mtime # pv.stat[NewCall.target].mtime
              => NewCall.pc = "generate"]_vars

\* C12: a call for a RAW file whose (path, mtime, size) is what an earlier
\* call returned an artifact for returns the same artifact path and
\* generates nothing; a call after the modification time changed has another
\* artifact path, and generates the preview again unless an earlier call
\* returned an artifact for exactly the (path, mtime, size) it finds.
PreviewReusedPerKey ==
    [][CallBegins =>
         /\ \A i \in ReturnedBefore :
              /\ pv.calls[i].st = pv.stat[NewCall.target]
                   => /\ NewCall.dst = pv.calls[i].dst
                      /\ NewCall.pc = "done" /\ ~NewCall.generated
              /\ pv.calls[i].st.mtime # pv.stat[NewCall.target].mtime
                   => NewCall.dst # pv.calls[i].dst
         /\ NewCall.pc = "generate"
              <=> \A i \in ReturnedBefore :
                     pv.calls[i].st # pv.stat[NewCall.target]]_vars

\* A preview was generated, returned again from the cache, and generated
\* anew after the file was touched.
PreviewReusedThenRegenerated ==
    \E i, j, k \in DOMAIN pv.calls :
        /\ i < j /\ j < k
        /\ pv.calls[i].target = pv.calls[j].target
        /\ pv.calls[j].target = pv.calls[k].target
        /\ pv.calls[i].generated /\ pv.calls[i].status = 200
        /\ pv.calls[j].st = pv.calls[i].st
        /\ pv.calls[j].pc = "done" /\ ~pv.calls[j].generated
        /\ pv.calls[j].dst = pv.calls[i].dst
        /\ pv.calls[k].st.mtime # pv.calls[i].st.mtime
        /\ pv.calls[k].generated /\ pv.calls[k].dst # pv.calls[i].dst


\* C11: no tick ends the watchdog's loop, whatever it raises, and every
\* tick is followed by the next one.
LoopOutlivesTicks ==
    /\ [](wd.pc # "dead")
    /\ \A n \in 1..MaxTicks : (now = n) ~> (now = n + 1)

\* The loop swallowed what a tick raised and made another tick after it.
TickAfterSwallowedException ==
    /\ wd.caught # 0
    /\ now > wd.caught + 1
    /\ wd.pc = "sleep"


\* The step is a tick leaving the loop's sleep.
TickTaken == wd.pc = "sleep" /\ (wd'.pc # "sleep" \/ now' # now)

\* The pair of the latch the settings file holds is not wholly among the
\* available drives.
LatchedPairGone ==
    LET l == LoadSettings.auto_latched
    IN  l # None /\ ~({l[1].sd, l[1].ssd} \subseteq AvailableDrives)

\* C13: a tick with auto_backup enabled and no job running that finds the
\* latched pair no longer among the available drives clears the latch and
\* goes on to save it, whatever other drives are mounted.
VanishedPairClearsLatch ==
    [][(/\ TickTaken /\ LoadSettings.auto_backup /\ ~JOB.running
        /\ LatchedPairGone)
       => /\ wd'.pc = "open"
          /\ wd'.settings.auto_latched = None]_vars


\* The drives of the latch the settings file holds, none when it holds no
\* latch.
LatchedPair ==
    LET l == LoadSettings.auto_latched
    IN  IF l = None THEN {} ELSE {l[1].sd, l[1].ssd}

\* C14: a tick decides to clear the latch only when it finds the latched
\* pair not among the available drives, and no step but the save of such a
\* tick takes the latch out of the settings file, or changes it, while its
\* pair is among the available drives before and after the step.
LatchKeptWhilePairPresent ==
    [][/\ (/\ TickTaken /\ wd'.pc = "open"
           /\ LoadSettings.auto_latched # None
           /\ LatchedPair \subseteq AvailableDrives)
          => wd'.settings.auto_latched = LoadSettings.auto_latched
       /\ (/\ LoadSettings.auto_latched # None
           /\ LatchedPair \subseteq AvailableDrives
           /\ LatchedPair \subseteq AvailableDrives'
           /\ ~(wd.pc = "replace" /\ wd'.pc = "sleep"
                /\ wd.settings.auto_latched = None))
          => LoadSettings'.auto_latched = LoadSettings.auto_latched]_vars


\* The source and destination candidates a tick selects among.
SourceCandidates == PickDrive(AvailableDrives, SD, Some(SSD))

DestinationCandidates == PickDrive(AvailableDrives, SSD, None)

\* The fingerprint the settings file holds is that of card sd as it is.
FingerprintOf(sd) ==
    LET last == LoadSettings.last_auto
    IN  last # None /\ last[1].drive = sd /\ last[1].mtime = mtime[sd]

\* The step is a tick with auto_backup enabled, no job running, no latch
\* held, and a candidate for either role.
TickMayTrigger ==
    /\ TickTaken
    /\ LoadSettings.auto_backup /\ ~JOB.running
    /\ LoadSettings.auto_latched = None
    /\ SourceCandidates # {} /\ DestinationCandidates # {}

\* C15: a tick with auto_backup enabled, no job running, no latch held,
\* both candidates and a fingerprint other than the source's starts exactly
\* one run, from the source's root to the destination's root, without
\* overwrite, verification or items, and sets the fingerprint (source,
\* its modification time, destination) and the latch (source, destination)
\* in its settings; the tick saves these settings as they are, and the
\* settings file holds them when the save is done.
TriggeringTickStartsOneRun ==
    [][/\ (TickMayTrigger /\ \A sd \in SourceCandidates : ~FingerprintOf(sd))
          => \E sd \in SourceCandidates, ssd \in DestinationCandidates :
                /\ Len(runs') = Len(runs) + 1
                /\ SubSeq(runs', 1, Len(runs)) = runs
                /\ LET cfg == runs'[Len(runs')].cfg[1]
                   IN  /\ cfg.src = sd /\ cfg.srcPath = <<>>
                       /\ cfg.dst = ssd /\ cfg.dstPath = <<>>
                       /\ ~cfg.overwrite /\ ~cfg.verify /\ cfg.items = <<>>
                /\ runs'[Len(runs')].pc = "queued"
                /\ wd'.pc = "open"
                /\ wd'.settings.last_auto # None
                /\ wd'.settings.last_auto[1].drive = sd
                /\ wd'.settings.last_auto[1].mtime = mtime[sd]
                /\ wd'.settings.last_auto[1].dst = ssd
                /\ wd'.settings.auto_latched = Some([sd |-> sd, ssd |-> ssd])
       /\ wd.pc \in {"open", "write", "replace"}
          => /\ wd'.settings = wd.settings
             /\ Len(runs') <= Len(runs)
       /\ (wd.pc = "replace" /\ wd'.pc = "sleep")
          => LoadSettings' = wd.settings]_vars


\* C16: a tick that finds every source candidate with the (id, modification
\* time) of the fingerprint in the settings file starts no run, and if it
\* saves settings at all, they hold no latch and the fingerprint the file
\* held.
UnchangedCardNeverTriggers ==
    [][(/\ TickTaken /\ SourceCandidates # {}
        /\ \A sd \in SourceCandidates : FingerprintOf(sd))
       => /\ runs' = runs
          /\ lastTick' = None
          /\ wd'.pc = "open"
               => /\ wd'.settings.auto_latched = None
                  /\ wd'.settings.last_auto = LoadSettings.last_auto]_vars

\* The latch was cleared and the unchanged card is back beside the disk:
\* the ticks made started nothing, and the settings file holds the card's
\* fingerprint and no latch.
UnchangedCardIgnored ==
    /\ wd.pc = "sleep" /\ now = MaxTicks + 1
    /\ prevTick = None /\ lastTick = None
    /\ runs = <<>> /\ ~JOB.running
    /\ LoadSettings.auto_backup
    /\ LoadSettings.auto_latched = None
    /\ SourceCandidates = {SD} /\ FingerprintOf(SD)
    /\ DestinationCandidates = {SSD}


\* The step is the first statement of a run routine.
RunBegins ==
    \E r \in DOMAIN runs :
        /\ runs[r].pc = "queued"
        /\ Len(runs') = Len(runs) /\ runs'[r].pc # "queued"

\* s is the beginning of t.
IsPrefix(s, t) == Len(s) <= Len(t) /\ SubSeq(t, 1, Len(s)) = s

\* C17: the job record is reset in full at the start of each run; during a
\* run the log only grows at its end; and while running is false the record
\* changes only by the start of the next run.
JobChangesOnlyInRun ==
    [][/\ RunBegins => JOB' = JobReset
       /\ (JOB.running /\ ~RunBegins) => IsPrefix(JOB.log, JOB'.log)
       /\ (~JOB.running /\ JOB' # JOB) => RunBegins]_vars


\* C18: while a run whose start was answered "started" has not ended, the
\* job record shows it (running is true from the answer on), and no other
\* start has been accepted.
StartedRunShows ==
    /\ \A r \in DOMAIN runs :
          (runs[r].origin = "manual" /\ runs[r].pc = "queued") => JOB.running
    /\ Cardinality({r \in DOMAIN runs : runs[r].origin = "manual"}) <= 1


\* C19: no step of a POST /settings handler changes the fingerprint or the
\* latch the settings file holds.
SettingsUpdateKeepsWatchdogFields ==
    [][posts' # posts
       => /\ LoadSettings'.last_auto = LoadSettings.last_auto
          /\ LoadSettings'.auto_latched = LoadSettings.auto_latched]_vars


\* C20: in every reachable state, a record that says not running and
\* holds a finishing time holds a result among success, warning and failed,
\* and while the record holds a finishing time no run routine is between
\* its first statement and its return.
JobRecordConsistent ==
    /\ (~JOB.running /\ JOB.finished_at # None)
          => \E x \in Results : JOB.result = Some(x)
    /\ JOB.finished_at # None
          => \A r \in DOMAIN runs : ~InProgress(runs[r])

====
